---- MODULE Spec2Model ----
(***************************************************************************)
(* The adaptive refinement loop of spuq (application/egsz):                *)
(* AdaptiveSolver alternates pcg_solve, ResidualEstimator.evaluateError,   *)
(* the exit checks, Marking.mark and Marking.refine.                       *)
(*                                                                         *)
(* Floating point values (xi, error_eps, zeta) are modelled by small       *)
(* integers; a mesh is modelled by its number of cells, a function space   *)
(* by its dimension.  The timing entries of the statistics record and the  *)
(* entries that only copy estimator output (RES-PART, ERR-RES, ...) are    *)
(* not part of the modelled record.                                        *)
(***************************************************************************)
EXTENDS Integers, Sequences, FiniteSets, TLC

\* ------------------------------------------------------------------ bounds
\* largest max_refinements tried
MaxRef == 2
\* longest statistics history handed in on resume
MaxHist == 2
\* Marking.mark marks cells among the first MaxMark cells of a mesh
MaxMark == 1

\* ------------------------------------------------------- values and inputs
\* Python's None for the loop variable (loop indices are >= 0)
None == -1

\* Multiindex() and Multiindex().inc(0); the loop activates multi-indices in
\* the first stochastic dimension only
zero == <<0, 0>>
eps_0 == <<1, 0>>
Multiindices == {zero, eps_0}

\* number of cells of the initial mesh mesh0
Mesh0Cells == 1

\* values for mis: the multi-indices of w0, or none (none is tried on a
\* start without histories only)
InitialMultiindices == {<<zero>>, <<>>}

\* values for max_dof (integers standing for DOF counts)
DofBudgets == {1, 2, 5}
\* DOFS entry of a record of an earlier run
OldDofs == {2, 5}
\* the estimate xi returned by evaluateError, and error_eps
XiValues == {1, 2}
ErrorEps == {1}
\* proj_zeta[0] returned by Marking.mark
ZetaValues == {1}
\* the residual norm zeta returned by pcg: 0 stands for a residual below
\* pcg_eps, 3 for the residual left when pcg_maxiter was reached
PcgZetas == {0, 3}

Max(a, b) == IF a >= b THEN a ELSE b
Min(a, b) == IF a <= b THEN a ELSE b

RECURSIVE SumOver(_, _)
SumOver(S, f) ==
    IF S = {} THEN 0
    ELSE LET x == CHOOSE y \in S : TRUE IN f[x] + SumOver(S \ {x}, f)

VARIABLES
    pc,                    \* position in AdaptiveSolver
    mis,                   \* parameter mis
    max_refinements,       \* parameter max_refinements
    max_dof,               \* parameter max_dof
    error_eps,             \* parameter error_eps
    do_refinement,         \* parameter do_refinement: RES, PROJ, MI
    do_uniform_refinement, \* parameter do_uniform_refinement
    sim_stats,             \* the statistics history (a list of records)
    sim_stats_None,        \* TRUE while sim_stats is None
    w_history,             \* the solution history (a list of references)
    w_history_None,        \* TRUE when w_history is None
    heap,                  \* the MultiVector objects: heap[r] is the mesh map
    w,                     \* the reference held by the local w
    start_iteration,       \* local start_iteration
    refinement,            \* loop variable refinement (None before the loop)
    stats,                 \* the dict stats of the current iteration
    stats_appended,        \* TRUE when stats is the object sim_stats[-1]
    zeta,                  \* local zeta, the residual norm pcg_solve returned
    zeta_passed,           \* history: the zeta evaluateError received in this
                           \* iteration (None before the call)
    xi,                    \* the estimate of the current iteration
    mark_returned,         \* history: what Marking.mark returned in the
                           \* marking block in progress
    mesh_markers,          \* local mesh_markers, the argument of refine
    new_multiindices,      \* local new_multiindices, its keys
    exit_by,               \* which break (or the end of range) left the loop
    sim_stats_in,          \* history: sim_stats as handed in
    w_history_in,          \* history: w_history as handed in
    npass,                 \* history: number of pcg_solve calls so far
    trace                  \* history: the phases executed, with their index

\* the operators of the SOLVE phase, called on their own
VARIABLES
    op_pc,                 \* "idle", "ready", then the call that was made
    coeff_field,           \* the coefficient field: its terms a_m, in order
    op_w,                  \* the MultiVector argument w
    op_w2,                 \* a second MultiVector on the active set of w
    op_c,                  \* two scalars c1, c2
    op_v,                  \* the MultiVector the call returned
    op_raised,             \* the exception the call raised, "none" if none
    op_reads               \* history: the m for which coeff_field[m] was read

opvars == <<op_pc, coeff_field, op_w, op_w2, op_c, op_v, op_raised, op_reads>>

\* the bulk marking of cells, called on its own
VARIABLES
    mark_pc,               \* "idle", "ready", "marked"
    resind,                \* the indicator of every cell
    theta_eta,             \* the bulk parameter, a fraction <<p, q>> for p/q
    min_zeta,              \* the smallest indicator that may be marked
    marked                 \* the cells marked, in the order of marking

markvars == <<mark_pc, resind, theta_eta, min_zeta, marked>>

\* the projection error of the estimator, evaluated on its own
VARIABLES
    est_pc,                \* "idle", "ready", then the call that was made
    est_falsy,             \* whether an empty MultiVector tests as false
    est_wN,                \* the MultiVector wN: a component per multi-index
    est_mu,                \* the multi-index mu
    est_m,                 \* the dimension m
    est_a,                 \* <<min of a0_f, max of am_f>> on the mesh nodes
    projected_wN,          \* the forward cache of the caller
    projected_back_wN,     \* the back-projection cache of the caller
    est_in,                \* history: the two caches as handed in
    est_local,             \* history: projected_wN as the call last saw it
    est_projected,         \* history: the projections the call computed
    est_zeta,              \* the pair (zeta1, zeta2) returned
    est_raised             \* the exception the call raised, "none" if none

estvars == <<est_pc, est_falsy, est_wN, est_mu, est_m, est_a, projected_wN,
             projected_back_wN, est_in, est_local, est_projected, est_zeta,
             est_raised>>

\* the composition of two operators, made and applied on its own
VARIABLES
    comp_pc,               \* "idle", "ready", "composed", "applied"
    comp_A,                \* the operator A
    comp_B,                \* the operator B
    comp_x,                \* the vector x
    comp_AB,               \* the operator A * B
    comp_r,                \* the vector (A * B).apply(x) returned
    comp_raised            \* the exception raised, "none" if none

compvars == <<comp_pc, comp_A, comp_B, comp_x, comp_AB, comp_r, comp_raised>>

\* the evaluation of a polynomial expansion, called on its own
VARIABLES
    poly_pc,               \* "idle", "ready", then the function called
    rc_func,               \* the recurrence coefficients: a family's name
    poly_coeffs,           \* the coefficients of the expansion
    poly_x,                \* the point x
    poly_y                 \* the value returned

polyvars == <<poly_pc, rc_func, poly_coeffs, poly_x, poly_y>>

\* the calls made on their own that are not calls of the SOLVE phase
callvars == <<estvars, compvars, polyvars>>

loopvars == <<pc, mis, max_refinements, max_dof, error_eps, do_refinement,
          do_uniform_refinement, sim_stats, sim_stats_None, w_history,
          w_history_None, heap, w, start_iteration, refinement, stats,
          stats_appended, zeta, zeta_passed, xi, mark_returned, mesh_markers,
          new_multiindices, exit_by, sim_stats_in, w_history_in, npass, trace>>

vars == <<loopvars, opvars, markvars, callvars>>

\* what no step of the loop writes: its parameters, the histories as handed
\* in, and the state of the calls made on their own
params == <<mis, max_refinements, max_dof, error_eps, do_refinement,
            do_uniform_refinement, sim_stats_in, w_history_in,
            w_history_None, opvars, markvars, callvars>>

\* --------------------------------------------------------- the MultiVector
\* a mesh map gives the number of cells of each component, 0 = not active
active_indices(m) == {mu \in Multiindices : m[mu] > 0}

\* dimension of the function space on a mesh of c cells (P1 on an interval)
dim(c) == c + 1

\* stats["DOFS"] and stats["CELLS"] of pcg_solve
DOFS(m) == SumOver(active_indices(m), [mu \in Multiindices |-> dim(m[mu])])
CELLS(m) == SumOver(active_indices(m), m)

\* the vector w0: the zero multi-index on mesh0
w0 == [mu \in Multiindices |-> IF mu = zero THEN Mesh0Cells ELSE 0]

\* a record of an earlier run, PASS = 0
OldRecord(d) ==
    [DOFS |-> d, CELLS |-> d - 1, EST |-> 2, PROJ_MAX_ZETA |-> 0,
     MARKING_RES |-> 0, MARKING_PROJ |-> 0, MARKING_MI |-> 0, PASS |-> 0]

NoMarkers == [mu \in Multiindices |-> {}]

\* no call of Marking.mark in the marking block in progress
NothingMarked == [R |-> NoMarkers, P |-> NoMarkers, new |-> {}]

\* ------------------------------------------------------------------- Init
\* the histories a caller can hand in: (sim_stats is None, sim_stats,
\* w_history is None, w_history); references of an earlier run are 0
Histories ==
    {<<TRUE, <<>>, TRUE, <<>>>>, <<TRUE, <<>>, FALSE, <<>>>>,
     <<TRUE, <<>>, FALSE, <<0>>>>}
    \cup {<<FALSE, [i \in 1..n |-> OldRecord(d)], FALSE, [i \in 1..n |-> 0]>> :
            n \in 0..MaxHist, d \in OldDofs}

\* no operator call is made on its own during a run of the loop
OperatorsIdle ==
    /\ op_pc = "idle"
    /\ coeff_field = <<>>
    /\ op_w = <<>>
    /\ op_w2 = <<>>
    /\ op_c = <<>>
    /\ op_v = <<>>
    /\ op_raised = "none"
    /\ op_reads = {}

\* nor is the bulk marking
MarkingIdle ==
    /\ mark_pc = "idle"
    /\ resind = <<>>
    /\ theta_eta = <<1, 1>>
    /\ min_zeta = 0
    /\ marked = <<>>

\* no projection error is evaluated on its own
EstimatorIdle ==
    /\ est_pc = "idle"
    /\ est_falsy = FALSE
    /\ est_wN = <<>>
    /\ est_mu = <<>>
    /\ est_m = 0
    /\ est_a = <<>>
    /\ projected_wN = <<>>
    /\ projected_back_wN = <<>>
    /\ est_in = <<>>
    /\ est_local = <<>>
    /\ est_projected = {}
    /\ est_zeta = <<>>
    /\ est_raised = "none"

\* no composition of operators is made on its own
CompositionIdle ==
    /\ comp_pc = "idle"
    /\ comp_A = <<>>
    /\ comp_B = <<>>
    /\ comp_x = <<>>
    /\ comp_AB = <<>>
    /\ comp_r = <<>>
    /\ comp_raised = "none"

\* no polynomial expansion is evaluated on its own
PolynomialsIdle ==
    /\ poly_pc = "idle"
    /\ rc_func = "none"
    /\ poly_coeffs = <<>>
    /\ poly_x = 0
    /\ poly_y = 0

CallsIdle == EstimatorIdle /\ CompositionIdle /\ PolynomialsIdle

Init ==
    /\ pc = "entry"
    /\ mis \in InitialMultiindices
    /\ max_refinements \in -1..MaxRef
    /\ max_dof \in DofBudgets
    /\ error_eps \in ErrorEps
    /\ do_refinement \in [{"RES", "PROJ", "MI"} -> BOOLEAN]
    /\ do_uniform_refinement \in BOOLEAN
    /\ \E h \in Histories :
        /\ sim_stats_None = h[1]
        /\ sim_stats = h[2]
        /\ w_history_None = h[3]
        /\ w_history = h[4]
    /\ (mis = <<>> => sim_stats_None /\ w_history_None)
    /\ sim_stats_in = sim_stats
    /\ w_history_in = w_history
    /\ heap = <<w0>>
    /\ w = 1
    /\ start_iteration = 0
    /\ refinement = None
    /\ stats = [PASS |-> 0]
    /\ stats_appended = FALSE
    /\ zeta = None
    /\ zeta_passed = None
    /\ xi = 0
    /\ mark_returned = NothingMarked
    /\ mesh_markers = NoMarkers
    /\ new_multiindices = {}
    /\ exit_by = "none"
    /\ npass = 0
    /\ trace = <<>>
    /\ OperatorsIdle
    /\ MarkingIdle
    /\ CallsIdle

\* ----------------------------------------------------- the loop conditions
\* mutant of StartIteration: a resumed run starts over at index 0
StartIteration_FromZero(history) == 0

\* start_iteration = max(len(sim_stats) - 1, 0)
StartIteration(history) == Max(Len(history) - 1, 0)

\* mutant of InRange: the range runs one index too far
InRange_OneMore(k) == k <= max_refinements + 1

\* k is in range(start_iteration, max_refinements + 1)
InRange(k) == k <= max_refinements

\* the guard of w_history.append(w)
RecordsSolution == refinement = 0 \/ start_iteration < refinement

\* mutant of RecordsStatistics: the record is appended in every iteration
RecordsStatistics_Always == TRUE

\* the guard of sim_stats.append(stats)
RecordsStatistics == refinement = 0 \/ start_iteration < refinement

\* mutant of ReachedMaxDof: the budget itself is not yet a reason to stop
ReachedMaxDof_Strict == sim_stats[refinement + 1].DOFS > max_dof

\* mutant of DoMarking: the last iteration marks and refines as well
DoMarking_Inclusive == refinement <= max_refinements

\* the three exit checks and the guard of the marking block
SkippingRefinement == refinement > max_refinements

ReachedMaxDof == sim_stats[refinement + 1].DOFS >= max_dof

ReachedAccuracy == xi <= error_eps

DoMarking == refinement < max_refinements

Phase(ph) == [ph |-> ph, k |-> refinement]

\* the for statement: bind the next index or leave the loop
LoopNext(k) ==
    IF InRange(k)
    THEN pc' = "solve" /\ refinement' = k /\ exit_by' = exit_by
    ELSE pc' = "return" /\ refinement' = refinement /\ exit_by' = "range"

\* ---------------------------------------------------------------- actions
\* setup of w and the statistics, start_iteration, first loop index.  The
\* assertion on w_history is only made when sim_stats is None; sim_stats is
\* None or a list, so len(sim_stats) does not raise.  The parameter mis is
\* not read (the decorator takes only checks that it is a list).
Enter ==
    /\ pc = "entry"
    /\ IF sim_stats_None /\ ~(w_history_None \/ Len(w_history) = 0)
       THEN /\ pc' = "error"
            /\ UNCHANGED <<sim_stats_None, start_iteration, refinement, exit_by>>
       ELSE /\ sim_stats_None' = FALSE
            /\ start_iteration' = StartIteration(sim_stats)
            /\ LoopNext(StartIteration(sim_stats))
    /\ UNCHANGED <<params, mark_returned, zeta, zeta_passed, sim_stats, w_history, heap, w, stats, stats_appended,
                   xi, mesh_markers, new_multiindices, npass, trace>>

\* stats = {}; w, zeta = pcg_solve(...); w_history.append(w).  pcg returns
\* the solution as a new MultiVector on the bases of the old w; DOFS and
\* CELLS are taken from b = 0 * w, which has the bases of w.  PASS numbers
\* the pcg_solve call that made the record.
Solve ==
    /\ pc = "solve"
    /\ npass' = npass + 1
    /\ heap' = Append(heap, heap[w])
    /\ w' = Len(heap) + 1
    /\ stats' = [DOFS |-> DOFS(heap[w]), CELLS |-> CELLS(heap[w]), PASS |-> npass + 1]
    /\ stats_appended' = FALSE
    /\ zeta' \in PcgZetas
    /\ zeta_passed' = None
    /\ w_history' = IF ~w_history_None /\ RecordsSolution
                    THEN Append(w_history, w') ELSE w_history
    /\ trace' = Append(trace, Phase("SOLVE"))
    /\ pc' = "estimate"
    /\ UNCHANGED <<params, mark_returned, sim_stats, sim_stats_None, start_iteration, refinement,
                   xi, mesh_markers, new_multiindices, exit_by>>

\* mutant of PassedZeta: a residual above the tolerance is not handed on
PassedZeta_Clamped == Min(zeta, 0)

\* the argument zeta of ResidualEstimator.evaluateError
PassedZeta == zeta

\* ResidualEstimator.evaluateError, the statistics, sim_stats.append(stats)
Estimate ==
    /\ pc = "estimate"
    /\ xi' \in XiValues
    /\ zeta_passed' = PassedZeta
    /\ zeta' = zeta
    /\ stats' = stats @@ [EST |-> xi', PROJ_MAX_ZETA |-> 0, MARKING_RES |-> 0,
                          MARKING_PROJ |-> 0, MARKING_MI |-> 0]
    /\ IF RecordsStatistics
       THEN sim_stats' = Append(sim_stats, stats') /\ stats_appended' = TRUE
       ELSE sim_stats' = sim_stats /\ stats_appended' = FALSE
    /\ trace' = Append(trace, Phase("ESTIMATE"))
    /\ pc' = "check"
    /\ UNCHANGED <<params, mark_returned, sim_stats_None, w_history, heap, w, start_iteration,
                   refinement, mesh_markers, new_multiindices, exit_by, npass>>

\* mutant of ExitChecks: the accuracy check comes before the DOF check
ExitChecks_AccuracyFirst ==
    /\ pc = "check"
    /\ IF SkippingRefinement
       THEN pc' = "return" /\ exit_by' = "skipping" /\ refinement' = refinement
       ELSE IF refinement + 1 \notin DOMAIN sim_stats
       THEN pc' = "error" /\ exit_by' = exit_by /\ refinement' = refinement
       ELSE IF ReachedAccuracy
       THEN pc' = "return" /\ exit_by' = "accuracy" /\ refinement' = refinement
       ELSE IF ReachedMaxDof
       THEN pc' = "return" /\ exit_by' = "max_dof" /\ refinement' = refinement
       ELSE IF DoMarking
       THEN pc' = "mark" /\ exit_by' = exit_by /\ refinement' = refinement
       ELSE LoopNext(refinement + 1)
    /\ trace' = Append(trace, Phase("CHECK"))
    /\ UNCHANGED <<params, mark_returned, zeta, zeta_passed, sim_stats, sim_stats_None, w_history, heap, w,
                   start_iteration, stats, stats_appended, xi, mesh_markers,
                   new_multiindices, npass>>

\* mutant of ExitChecks: reaching the accuracy does not leave the loop
ExitChecks_NoBreak ==
    /\ pc = "check"
    /\ IF SkippingRefinement
       THEN pc' = "return" /\ exit_by' = "skipping" /\ refinement' = refinement
       ELSE IF refinement + 1 \notin DOMAIN sim_stats
       THEN pc' = "error" /\ exit_by' = exit_by /\ refinement' = refinement
       ELSE IF ReachedMaxDof
       THEN pc' = "return" /\ exit_by' = "max_dof" /\ refinement' = refinement
       ELSE IF DoMarking
       THEN pc' = "mark" /\ exit_by' = exit_by /\ refinement' = refinement
       ELSE LoopNext(refinement + 1)
    /\ trace' = Append(trace, Phase("CHECK"))
    /\ UNCHANGED <<params, mark_returned, zeta, zeta_passed, sim_stats, sim_stats_None, w_history, heap, w,
                   start_iteration, stats, stats_appended, xi, mesh_markers,
                   new_multiindices, npass>>

\* the exit checks, in the order of the code, and the guard of the marking
\* block; sim_stats[refinement] raises an IndexError when there is no such
\* record
ExitChecks ==
    /\ pc = "check"
    /\ IF SkippingRefinement
       THEN pc' = "return" /\ exit_by' = "skipping" /\ refinement' = refinement
       ELSE IF refinement + 1 \notin DOMAIN sim_stats
       THEN pc' = "error" /\ exit_by' = exit_by /\ refinement' = refinement
       ELSE IF ReachedMaxDof
       THEN pc' = "return" /\ exit_by' = "max_dof" /\ refinement' = refinement
       ELSE IF ReachedAccuracy
       THEN pc' = "return" /\ exit_by' = "accuracy" /\ refinement' = refinement
       ELSE IF DoMarking
       THEN pc' = "mark" /\ exit_by' = exit_by /\ refinement' = refinement
       ELSE LoopNext(refinement + 1)
    /\ trace' = Append(trace, Phase("CHECK"))
    /\ UNCHANGED <<params, mark_returned, zeta, zeta_passed, sim_stats, sim_stats_None, w_history, heap, w,
                   start_iteration, stats, stats_appended, xi, mesh_markers,
                   new_multiindices, npass>>

\* --------------------------------------------------------------- marking
\* the marker maps Marking.mark can return for a mesh map m: a set of cell
\* ids for every active multi-index (a missing key reads as the empty set)
MarkerMaps(m) ==
    {mm \in [Multiindices -> SUBSET (1..MaxMark)] :
        \A mu \in Multiindices : mm[mu] \subseteq 1..Min(m[mu], MaxMark)}

\* the candidate multi-indices Marking.mark can return: not active ones
Candidates(m) == SUBSET (Multiindices \ active_indices(m))

\* sum([len(cell_ids) for cell_ids in markers.itervalues()])
MarkedCells(mm) ==
    SumOver(Multiindices, [mu \in Multiindices |-> Cardinality(mm[mu])])

\* mutant of ToggledMarkers: with PROJ set the projection markers are taken
\* alone, not united with the residual markers
ToggledMarkers_ProjAlone(R, P) ==
    IF do_refinement["PROJ"] THEN P
    ELSE IF do_refinement["RES"] THEN R ELSE NoMarkers

\* mutant of ToggledMarkers: the toggle RES is not looked at
ToggledMarkers_ResAlways(R, P) ==
    IF do_refinement["PROJ"]
    THEN [mu \in Multiindices |->
            IF Cardinality(P[mu]) > 0 THEN R[mu] \cup P[mu] ELSE R[mu]]
    ELSE R

\* the do_refinement toggles RES and PROJ applied to the two marker maps
ToggledMarkers(R, P) ==
    LET res == IF do_refinement["RES"] THEN R ELSE NoMarkers
    IN  IF do_refinement["PROJ"]
        THEN [mu \in Multiindices |->
                IF Cardinality(P[mu]) > 0 THEN res[mu] \cup P[mu] ELSE res[mu]]
        ELSE res

\* the toggle MI applied to the marked multi-indices
ToggledMultiindices(new) ==
    IF ~do_refinement["MI"] \/ refinement = max_refinements THEN {} ELSE new

\* mutant of UniformMarkers: the first cell of every component of w
UniformMarkers_FirstCell(m) == [mu \in Multiindices |-> 1..Min(m[mu], 1)]

\* uniform refinement: every cell of every component of w
UniformMarkers(m) == [mu \in Multiindices |-> 1..m[mu]]

\* the statistics written by the marking block: PROJ-MAX-ZETA goes to
\* sim_stats[-1], the MARKING-* counts go to stats; both are one object
\* when stats was appended in this iteration
MarkedStats(rec, R, P, new) ==
    [rec EXCEPT !.MARKING_RES = MarkedCells(R), !.MARKING_PROJ = MarkedCells(P),
                !.MARKING_MI = Cardinality(new)]

\* Marking.mark and the do_refinement toggles
Mark ==
    /\ pc = "mark"
    /\ ~do_uniform_refinement
    /\ \E R \in MarkerMaps(heap[w]), P \in MarkerMaps(heap[w]),
          new \in Candidates(heap[w]), proj_zeta \in ZetaValues :
        LET last == Len(sim_stats)
            zrec == [sim_stats[last] EXCEPT !.PROJ_MAX_ZETA = proj_zeta]
        IN  /\ last > 0
            /\ IF stats_appended
               THEN /\ stats' = MarkedStats(zrec, R, P, new)
                    /\ sim_stats' = [sim_stats EXCEPT ![last] = stats']
               ELSE /\ stats' = MarkedStats(stats, R, P, new)
                    /\ sim_stats' = [sim_stats EXCEPT ![last] = zrec]
            /\ mark_returned' = [R |-> R, P |-> P, new |-> new]
            /\ mesh_markers' = ToggledMarkers(R, P)
            /\ new_multiindices' = ToggledMultiindices(new)
    /\ trace' = Append(trace, Phase("MARK"))
    /\ pc' = "refine"
    /\ UNCHANGED <<params, zeta, zeta_passed, sim_stats_None, w_history, heap, w, start_iteration,
                   refinement, stats_appended, xi, exit_by, npass>>

\* the uniform refinement branch of the marking block
UniformMark ==
    /\ pc = "mark"
    /\ do_uniform_refinement
    /\ mesh_markers' = UniformMarkers(heap[w])
    /\ new_multiindices' = {}
    /\ trace' = Append(trace, Phase("MARK"))
    /\ pc' = "refine"
    /\ UNCHANGED <<params, mark_returned, zeta, zeta_passed, sim_stats, sim_stats_None, w_history, heap, w,
                   start_iteration, refinement, stats, stats_appended, xi,
                   exit_by, npass>>

\* Marking.refine on a mesh map: a component with marked cells gets its mesh
\* refined, a new multi-index gets a component on mesh0 (setup_vector)
RefinedMesh(m, markers, newmi) ==
    [mu \in Multiindices |->
        IF m[mu] > 0 THEN m[mu] + Cardinality(markers[mu])
        ELSE IF mu \in newmi THEN Mesh0Cells ELSE 0]

\* Marking.refine(w, mesh_markers, new_multiindices.keys(), ...), in place
Refine ==
    /\ pc = "refine"
    /\ heap' = [heap EXCEPT ![w] = RefinedMesh(@, mesh_markers, new_multiindices)]
    /\ mark_returned' = NothingMarked
    /\ trace' = Append(trace, Phase("REFINE"))
    /\ LoopNext(refinement + 1)
    /\ UNCHANGED <<params, zeta, zeta_passed, sim_stats, sim_stats_None, w_history, w,
                   start_iteration, stats, stats_appended, xi, mesh_markers,
                   new_multiindices, npass>>

\* the closing log line (it reads sim_stats[refinement]) and the return
Return ==
    /\ pc = "return"
    /\ IF refinement # None /\ refinement # 0 /\ refinement + 1 \notin DOMAIN sim_stats
       THEN pc' = "error"
       ELSE pc' = "done"
    /\ UNCHANGED <<params, mark_returned, zeta, zeta_passed, sim_stats, sim_stats_None, w_history, heap, w,
                   start_iteration, refinement, stats, stats_appended, xi,
                   mesh_markers, new_multiindices, exit_by, npass, trace>>

Next ==
    \/ Enter
    \/ Solve
    \/ Estimate
    \/ ExitChecks
    \/ Mark
    \/ UniformMark
    \/ Refine
    \/ Return

Spec == Init /\ [][Next]_vars

\* the loop is sequential code: every step that can be taken is taken
FairSpec == Spec /\ WF_vars(Next)

\* ------------------------------------------ the operators of the SOLVE phase
\* MultiOperator.apply, PreconditioningOperator.apply and prepare_rhs, called
\* on their own.  The multi-indices have the stochastic dimensions m = 0, 1,
\* with degrees 0..3 in the first and 0..1 in the second; the components of a
\* MultiVector share one basis (as in multi_operator2.py; project_onto is
\* then the identity) and have one degree of freedom each, so that an
\* assembled operator is a factor.

\* most multi-indices in the active set of an argument
MaxActive == 3

Dimensions == {0, 1}
MultiindexSet == {<<i, j>> : i \in 0..3, j \in 0..1}

\* the bases (numbers of cells), the coefficients and the scalars tried
Bases == {1, 2}
Coeffs == {1, 2}
Coeffs2 == {3}
Scalars == {<<2, -1>>, <<-1, 3>>}

\* the coefficient field: mean_func and the functions a_m of its terms
CoefficientField == [mean_func |-> 3, terms |-> <<5, 7>>]

SetMax(S) == CHOOSE x \in S : \A y \in S : y <= x

\* mu.inc(m), mu.dec(m); dec raises when the degree would become negative
inc(mu, m) == [mu EXCEPT ![m + 1] = @ + 1]
dec(mu, m) == [mu EXCEPT ![m + 1] = @ - 1]
dec_raises(mu, m) == mu[m + 1] - 1 < 0

\* am_rv.orth_polys.get_beta(n): the coefficients (c_n/b_n, a_n/b_n, 1/b_n)
\* of the recurrence p_{n+1} = (a_n + b_n x) p_n - c_n p_{n-1}, here
\* (a_n, b_n, c_n) = (2, 1, n): stochastic Hermite polynomials, shifted
get_beta(n) == [i \in {-1, 0, 1} |-> IF i = -1 THEN n ELSE IF i = 0 THEN 2 ELSE 1]

\* w.active_indices() and w.max_order, for a MultiVector u
Lambda(u) == DOMAIN u.coeffs
order(mu) == SetMax({0} \cup {m + 1 : m \in {d \in Dimensions : mu[d + 1] # 0}})
max_order(u) == SetMax({0} \cup {order(mu) : mu \in Lambda(u)})

\* the MultiVectors on the active set L with basis V and coefficients in C
MultiVectors(L, V, C) == [basis : {V}, coeffs : [L -> C]]

\* c * u and w1 + w2 of MultiVector
Scaled(c, u) == [u EXCEPT !.coeffs = [mu \in Lambda(u) |-> c * u.coeffs[mu]]]
Sum(w1, w2) ==
    [w1 EXCEPT !.coeffs = [mu \in Lambda(w1) |-> w1.coeffs[mu] + w2.coeffs[mu]]]

\* the operators assembled on the basis V for the coefficient function a,
\* applied to the coefficient x: assemble_0 and assemble_m (the stiffness
\* operator) and assemble_solver (the solve operator)
assemble_0(V, a, x) == V * a * x
assemble_m(V, a, x) == V * a * x
assemble_solver(V, a, x) == (V * a + 1) * x

\* pde.assemble_rhs on the basis V for the coefficient function a and the
\* load f
assemble_rhs(V, a, f) == V * f + a

SetMin(S) == CHOOSE x \in S : \A y \in S : x <= y

\* what a call that raised leaves in place of its result
NoVector == [basis |-> 0, coeffs |-> <<>>]

\* mutant of NewVector: the new MultiVector starts without components
NewVector_Empty(u) == [basis |-> u.basis, coeffs |-> <<>>]

\* v = 0 * w: a new MultiVector on the basis and the active set of u
NewVector(u) == Scaled(0, u)

\* mutant of maxm: the length of the coefficient field is not looked at
maxm_Untruncated(u) == max_order(u)

\* maxm of MultiOperator.apply: w.max_order, cut to len(coeff_field)
maxm(u) ==
    IF Len(coeff_field) < max_order(u) THEN Len(coeff_field) ELSE max_order(u)

\* mutant of cur_w: a neighbour that is not active is read as the component
\* of mu itself
cur_w_Padded(u, mu, m) ==
    LET beta == get_beta(mu[m + 1])
        mu1 == inc(mu, m)
        mu2 == dec(mu, m)
    IN  (-beta[0]) * u.coeffs[mu]
        + beta[1] * u.coeffs[IF mu1 \in Lambda(u) THEN mu1 ELSE mu]
        + beta[-1] * u.coeffs[IF mu2 \in Lambda(u) THEN mu2 ELSE mu]

\* cur_w of MultiOperator.apply for the multi-index mu and the dimension m
cur_w(u, mu, m) ==
    LET beta == get_beta(mu[m + 1])
        mu1 == inc(mu, m)
        mu2 == dec(mu, m)
    IN  (-beta[0]) * u.coeffs[mu]
        + (IF mu1 \in Lambda(u) THEN beta[1] * u.coeffs[mu1] ELSE 0)
        + (IF mu2 \in Lambda(u) THEN beta[-1] * u.coeffs[mu2] ELSE 0)

\* cur_v of MultiOperator.apply after the dimensions m in range(n)
RECURSIVE cur_v(_, _, _)
cur_v(u, mu, n) ==
    IF n = 0
    THEN assemble_0(u.basis, CoefficientField.mean_func, u.coeffs[mu])
    ELSE cur_v(u, mu, n - 1)
         + assemble_m(u.basis, coeff_field[n], cur_w(u, mu, n - 1))

\* mutant of apply: the stochastic part is applied to the squares
apply_Squared(u) ==
    [basis |-> NewVector(u).basis,
     coeffs |-> [mu \in Lambda(NewVector(u)) |->
        cur_v(u, mu, maxm(u)) * u.coeffs[mu]]]

\* the MultiVector MultiOperator.apply returns when nothing raises
apply(u) ==
    [basis |-> NewVector(u).basis,
     coeffs |-> [mu \in Lambda(NewVector(u)) |-> cur_v(u, mu, maxm(u))]]

\* the pass of apply for mu over range(n): in the dimension m it subscripts
\* coeff_field[m], then calls mu.dec(m); FirstFailure is the first m at which
\* one of the two raises, n when none does
Fails(mu, m) == m >= Len(coeff_field) \/ dec_raises(mu, m)
FirstFailure(mu, n) == SetMin({m \in 0..(n - 1) : Fails(mu, m)} \cup {n})
Exception(m) == IF m >= Len(coeff_field) THEN "IndexError" ELSE "DomainError"

\* the outcome of MultiOperator.apply on the MultiVector u.  The
\* multi-indices are visited in an order the active set gives; the first one
\* whose pass raises ends the call (before: a multi-index whose pass raised
\* nothing came first).
ApplyOutcome(u) ==
    LET n == maxm(u)
        failing == {mu \in Lambda(u) : FirstFailure(mu, n) < n}
    IN  IF failing = {}
        THEN /\ op_v' = apply(u)
             /\ op_raised' = "none"
             /\ op_reads' = 0..(n - 1)
        ELSE \E mu \in failing, before \in BOOLEAN :
             /\ before => Lambda(u) \ failing # {}
             /\ op_v' = NoVector
             /\ op_raised' = Exception(FirstFailure(mu, n))
             /\ op_reads' = IF before THEN 0..(n - 1)
                            ELSE 0..FirstFailure(mu, n)

\* A.apply(w)
Apply ==
    /\ op_pc = "ready"
    /\ ApplyOutcome(op_w)
    /\ op_pc' = "apply"
    /\ UNCHANGED <<coeff_field, op_w, op_w2, op_c, loopvars, markvars, callvars>>

\* c1 * w + c2 * w2
Combination == Sum(Scaled(op_c[1], op_w), Scaled(op_c[2], op_w2))

\* A.apply(c1 * w + c2 * w2)
ApplyCombination ==
    /\ op_pc = "ready"
    /\ ApplyOutcome(Combination)
    /\ op_pc' = "apply_combination"
    /\ UNCHANGED <<coeff_field, op_w, op_w2, op_c, loopvars, markvars, callvars>>

\* mutant of PreconditioningOperator_apply: the operator A itself
PreconditioningOperator_apply_Coupled(u) == apply(u)

\* the MultiVector PreconditioningOperator.apply returns
PreconditioningOperator_apply(u) ==
    [basis |-> NewVector(u).basis,
     coeffs |-> [mu \in Lambda(NewVector(u)) |->
        assemble_solver(u.basis, CoefficientField.mean_func, u.coeffs[mu])]]

\* P.apply(w)
Precondition ==
    /\ op_pc = "ready"
    /\ op_v' = PreconditioningOperator_apply(op_w)
    /\ op_raised' = "none"
    /\ op_reads' = {}
    /\ op_pc' = "precondition"
    /\ UNCHANGED <<coeff_field, op_w, op_w2, op_c, loopvars, markvars, callvars>>

\* the dimensions prepare_rhs loops over
rhs_range(u) == 0..(max_order(u) - 1)

\* mutant of prepare_rhs: every component gets the right-hand side of the
\* mean field
prepare_rhs_Dense(u) ==
    [basis |-> u.basis,
     coeffs |-> [mu \in Lambda(u) |->
                    assemble_rhs(u.basis, CoefficientField.mean_func, 1)]]

\* the MultiVector prepare_rhs returns when nothing raises
prepare_rhs(u) ==
    LET V == u.basis
        beta == get_beta(0)
        g0 == [m \in rhs_range(u) |-> assemble_rhs(V, coeff_field[m + 1], 0)]
    IN  [basis |-> NewVector(u).basis,
         coeffs |-> [mu \in Lambda(NewVector(u)) |->
            IF mu = zero
            THEN assemble_rhs(V, CoefficientField.mean_func, 1)
                 + SumOver(rhs_range(u), [m \in rhs_range(u) |-> beta[0] * g0[m]])
            ELSE IF \E m \in rhs_range(u) : mu = inc(zero, m)
            THEN beta[1] * g0[CHOOSE m \in rhs_range(u) : mu = inc(zero, m)]
            ELSE 0]]

\* b = prepare_rhs(A, w, coeff_field, pde), the first statement of pcg_solve:
\* b[zero] needs the zero multi-index, coeff_field[m] a term for every m in
\* range(w.max_order)
PrepareRhs ==
    /\ op_pc = "ready"
    /\ IF zero \notin Lambda(op_w)
       THEN op_v' = NoVector /\ op_raised' = "KeyError" /\ op_reads' = {}
       ELSE IF \E m \in rhs_range(op_w) : m >= Len(coeff_field)
       THEN /\ op_v' = NoVector
            /\ op_raised' = "IndexError"
            /\ op_reads' = 0..Len(coeff_field)
       ELSE /\ op_v' = prepare_rhs(op_w)
            /\ op_raised' = "none"
            /\ op_reads' = rhs_range(op_w)
    /\ op_pc' = "prepare_rhs"
    /\ UNCHANGED <<coeff_field, op_w, op_w2, op_c, loopvars, markvars, callvars>>

\* the loop is not run while the operators are called on their own
LoopIdle ==
    /\ pc = "idle"
    /\ mis = <<zero>>
    /\ max_refinements = 0
    /\ max_dof = 1
    /\ error_eps = 1
    /\ do_refinement = [t \in {"RES", "PROJ", "MI"} |-> FALSE]
    /\ do_uniform_refinement = FALSE
    /\ sim_stats = <<>>
    /\ sim_stats_None = TRUE
    /\ w_history = <<>>
    /\ w_history_None = TRUE
    /\ heap = <<w0>>
    /\ w = 1
    /\ start_iteration = 0
    /\ refinement = None
    /\ stats = [PASS |-> 0]
    /\ stats_appended = FALSE
    /\ zeta = None
    /\ zeta_passed = None
    /\ xi = 0
    /\ mark_returned = NothingMarked
    /\ mesh_markers = NoMarkers
    /\ new_multiindices = {}
    /\ exit_by = "none"
    /\ sim_stats_in = <<>>
    /\ w_history_in = <<>>
    /\ npass = 0
    /\ trace = <<>>

\* the active sets tried
ActiveSets ==
    {L \in SUBSET MultiindexSet : Cardinality(L) \in 1..MaxActive}

\* an operator, a coefficient field of 0, 1 or 2 terms, and its arguments
OperatorInit ==
    /\ LoopIdle
    /\ MarkingIdle
    /\ CallsIdle
    /\ op_pc = "ready"
    /\ coeff_field \in {SubSeq(CoefficientField.terms, 1, n) :
                            n \in 0..Len(CoefficientField.terms)}
    /\ \E L \in ActiveSets, V \in Bases :
        /\ op_w \in MultiVectors(L, V, Coeffs)
        /\ op_w2 \in MultiVectors(L, V, Coeffs2)
    /\ op_c \in Scalars
    /\ op_v = NoVector
    /\ op_raised = "none"
    /\ op_reads = {}

OperatorNext ==
    \/ Apply
    \/ ApplyCombination
    \/ Precondition
    \/ PrepareRhs

OperatorSpec == OperatorInit /\ [][OperatorNext]_vars

\* ------------------------------------------------ the bulk marking of cells
\* The cell marking of Marking.mark for one indicator set, called on its
\* own.  A cell stands for a pair of a multi-index and a cell of its mesh;
\* indicators are small integers and theta_eta is a fraction.

\* most cells of an indicator set
MaxCells == 3

\* the indicators, the values of theta_eta in (0, 1] and of min_zeta tried
Indicators == 0..3
ThetaEtas == {<<1, 4>>, <<1, 2>>, <<1, 1>>}
MinZetas == {0, 2}

Range(q) == {q[i] : i \in DOMAIN q}

\* the cells of S sorted by descending indicator (sorted is stable: cells of
\* equal indicator keep the order of their ids)
RECURSIVE SortedCells(_, _)
SortedCells(ind, S) ==
    IF S = {} THEN <<>>
    ELSE LET c == CHOOSE x \in S :
                    \A y \in S : ind[x] > ind[y] \/ (ind[x] = ind[y] /\ x <= y)
         IN  <<c>> \o SortedCells(ind, S \ {c})

\* mutant of Reached: the marked sum has to exceed the bulk
Reached_Strict(ind, cells, th, total) ==
    th[2] * SumOver(cells, ind) > th[1] * total

\* the indicator sum of the marked cells has reached theta_eta * total
Reached(ind, cells, th, total) ==
    th[2] * SumOver(cells, ind) >= th[1] * total

\* the bulk rule: mark along the sorted cells until the bulk is reached;
\* k cells are marked so far
RECURSIVE MarkBulk(_, _, _, _, _)
MarkBulk(ind, sorted, k, th, total) ==
    IF k = Len(sorted) \/ Reached(ind, Range(SubSeq(sorted, 1, k)), th, total)
    THEN SubSeq(sorted, 1, k)
    ELSE MarkBulk(ind, sorted, k + 1, th, total)

\* the cells marked for the indicators ind: cells with an indicator below
\* min_zeta are never marked, the total is the sum over all cells
mark_cells(ind, th, mz) ==
    LET eligible == {c \in DOMAIN ind : ind[c] >= mz}
    IN  MarkBulk(ind, SortedCells(ind, eligible), 0, th, SumOver(DOMAIN ind, ind))

BulkMark ==
    /\ mark_pc = "ready"
    /\ marked' = mark_cells(resind, theta_eta, min_zeta)
    /\ mark_pc' = "marked"
    /\ UNCHANGED <<resind, theta_eta, min_zeta, loopvars, opvars, callvars>>

MarkingInit ==
    /\ LoopIdle
    /\ OperatorsIdle
    /\ CallsIdle
    /\ mark_pc = "ready"
    /\ resind \in UNION {[1..n -> Indicators] : n \in 1..MaxCells}
    /\ theta_eta \in ThetaEtas
    /\ min_zeta \in MinZetas
    /\ marked = <<>>

MarkingNext == BulkMark

MarkingSpec == MarkingInit /\ [][MarkingNext]_vars

\* ------------------------------------- the projection error of the estimator
\* ResidualEstimator._evaluateProjections and evaluateLocalProjectionError,
\* called on their own.  A component of wN has a basis of its own and one
\* degree of freedom; a cache maps mu to a MultiVector of the projections of
\* the neighbours of mu.  The integral of |grad e|^2 of a difference e of
\* two components is the square of the difference of their coefficients.

\* the multi-indices mu tried, the components of wN, what a cache holds for
\* a neighbour on entry, and the values <<min a0_f, max am_f>>
EstimatorIndices == {zero, eps_0}
Components == [basis : Bases, coeffs : Coeffs]
CachedProjections == {[basis |-> 2, coeffs |-> 4]}
NodeValues == {<<2, -1>>, <<2, 1>>, <<2, 3>>}

\* MultiVector(): no component
MultiVector == <<>>

\* not x, for a MultiVector x: whether an empty one is false is up to the
\* class MultiVector (est_falsy)
Falsy(x) == est_falsy /\ DOMAIN x = {}

\* x[k] = v on a MultiVector x
Store(x, k, v) == [j \in DOMAIN x \cup {k} |-> IF j = k THEN v ELSE x[j]]

\* cache[mu][nb] = v
Put(cache, mu, nb, v) == [cache EXCEPT ![mu] = Store(@, nb, v)]

\* if mu not in cache.keys(): cache[mu] = MultiVector()
WithKey(cache, mu) ==
    IF mu \in DOMAIN cache THEN cache ELSE Store(cache, mu, MultiVector)

\* basis.project(vec, pt): the component on the basis V; a coarser basis
\* holds the even coefficients only
project(vec, V) ==
    [basis |-> V,
     coeffs |-> IF V >= vec.basis THEN vec.coeffs ELSE 2 * (vec.coeffs \div 2)]

\* rc_stoch_hermite(n): (a_n, b_n, c_n) of the stochastic Hermite polynomials
rc_stoch_hermite(n) == <<0, 1, n>>

\* beta = (a/b, 1/b, c/b) of p.recurrence_coefficients(n): beta[0], beta[1]
\* and beta[-1] are the entries 1, 2 and 3
recurrence_beta(n) ==
    LET rc == rc_stoch_hermite(n)
    IN  <<rc[1] \div rc[2], 1 \div rc[2], rc[3] \div rc[2]>>

\* the neighbours mu.add((m, 1)) and mu.add((m, -1)) that exist
Nbs(mu, m) == {inc(mu, m)} \cup (IF dec_raises(mu, m) THEN {} ELSE {dec(mu, m)})

\* lines 299-302: the local projected_wN becomes a new MultiVector when the
\* forward cache is false, and also when the back-projection cache is false
Rebound(fwd, back) == Falsy(fwd) \/ Falsy(back)

\* lines 315-323 and 326-334: the two projections of the neighbour nb of mu,
\* taken from the caches or computed and stored, and the squared error times
\* the coefficient coef; the state st is left as it is when wN[nb] fails
Neighbour(wN, mu, nb, coef, st) ==
    LET needs_fwd == nb \notin DOMAIN st.fwd[mu]
        needs_back == nb \notin DOMAIN st.back[mu]
    IN  IF (needs_fwd \/ needs_back) /\ nb \notin DOMAIN wN
        THEN [st EXCEPT !.raised = "KeyError"]
        ELSE LET fwd == IF needs_fwd
                        THEN Put(st.fwd, mu, nb, project(wN[nb], wN[mu].basis))
                        ELSE st.fwd
                 back == IF needs_back
                         THEN Put(st.back, mu, nb,
                                  project(fwd[mu][nb], wN[nb].basis))
                         ELSE st.back
                 error == back[mu][nb].coeffs - wN[mu].coeffs
             IN  [fwd |-> fwd, back |-> back,
                  computed |-> st.computed
                      \cup (IF needs_fwd THEN {<<"projected_wN", mu, nb>>} ELSE {})
                      \cup (IF needs_back THEN {<<"projected_back_wN", mu, nb>>} ELSE {}),
                  zeta |-> Append(st.zeta, coef * (error * error)),
                  raised |-> "none"]

\* _evaluateProjections(rv, wN, mu, m, projected_wN, projected_back_wN): the
\* local caches, the projections computed, (zeta1, zeta2) and the exception
evaluateProjections(wN, mu, m, fwd, back) ==
    LET beta == recurrence_beta(mu[m + 1])
        st0 == [fwd |-> WithKey(IF Rebound(fwd, back) THEN MultiVector ELSE fwd, mu),
                back |-> WithKey(back, mu),
                computed |-> {}, zeta |-> <<>>, raised |-> "none"]
        st1 == Neighbour(wN, mu, inc(mu, m), beta[2], st0)
    IN  IF st1.raised # "none" THEN st1
        ELSE IF dec_raises(mu, m) THEN [st1 EXCEPT !.raised = "Exception"]
        ELSE Neighbour(wN, mu, dec(mu, m), beta[3], st1)

\* ainfty = ammax//amin
ainfty(a) == a[2] \div a[1]

\* what a call of _evaluateProjections leaves: the caller's forward cache is
\* the local one unless that was replaced by a new MultiVector
Projected(r, pcname, zetas) ==
    /\ est_pc' = pcname
    /\ projected_wN' = IF Rebound(projected_wN, projected_back_wN)
                       THEN projected_wN ELSE r.fwd
    /\ projected_back_wN' = r.back
    /\ est_local' = r.fwd
    /\ est_projected' = r.computed
    /\ est_raised' = r.raised
    /\ est_zeta' = IF r.raised = "none" THEN zetas ELSE <<>>
    /\ UNCHANGED <<est_falsy, est_wN, est_mu, est_m, est_a, est_in,
                   loopvars, opvars, markvars, compvars, polyvars>>

\* a call of _evaluateProjections
EvaluateProjections ==
    /\ est_pc = "ready"
    /\ LET r == evaluateProjections(est_wN, est_mu, est_m, projected_wN,
                                    projected_back_wN)
       IN  Projected(r, "_evaluateProjections", r.zeta)

\* a call of evaluateLocalProjectionError: zeta1 *= ainfty, zeta2 *= ainfty
EvaluateLocalProjectionError ==
    /\ est_pc = "ready"
    /\ LET r == evaluateProjections(est_wN, est_mu, est_m, projected_wN,
                                    projected_back_wN)
       IN  Projected(r, "evaluateLocalProjectionError",
                     [i \in DOMAIN r.zeta |-> r.zeta[i] * ainfty(est_a)])

\* a call of _evaluateResidualEstimator(mu, wN, CF, f): the names
\* projected_wN, maxm, pt and am_f it reads are bound nowhere
EvaluateResidualEstimator ==
    /\ est_pc = "ready"
    /\ est_pc' = "_evaluateResidualEstimator"
    /\ est_raised' = "NameError"
    /\ UNCHANGED <<est_falsy, est_wN, est_mu, est_m, est_a, projected_wN,
                   projected_back_wN, est_in, est_local, est_projected,
                   est_zeta, loopvars, opvars, markvars, compvars, polyvars>>

\* the caches a caller can hand in for mu: empty, or with projections of
\* some of the neighbours of mu
Caches(mu, m) ==
    {MultiVector}
    \cup {[k \in {mu} |-> f] :
            f \in UNION {[S -> CachedProjections] : S \in SUBSET Nbs(mu, m)}}

EstimatorInit ==
    /\ LoopIdle
    /\ OperatorsIdle
    /\ MarkingIdle
    /\ CompositionIdle
    /\ PolynomialsIdle
    /\ est_pc = "ready"
    /\ est_falsy \in BOOLEAN
    /\ est_mu \in EstimatorIndices
    /\ est_m \in Dimensions
    /\ est_wN \in UNION {[{est_mu} \cup S -> Components] :
                            S \in SUBSET Nbs(est_mu, est_m)}
    /\ est_a \in NodeValues
    /\ projected_wN \in Caches(est_mu, est_m)
    /\ projected_back_wN \in Caches(est_mu, est_m)
    /\ est_in = <<projected_wN, projected_back_wN>>
    /\ est_local = <<>>
    /\ est_projected = {}
    /\ est_zeta = <<>>
    /\ est_raised = "none"

EstimatorNext ==
    \/ EvaluateProjections
    \/ EvaluateLocalProjectionError
    \/ EvaluateResidualEstimator

EstimatorSpec == EstimatorInit /\ [][EstimatorNext]_vars

\* ----------------------------------------------- the composition of operators
\* Operator.__mul__, ComposedOperator and MatrixOperator of linalg/operator.py,
\* called on their own.  A basis is a EuclideanBasis, given by its dimension
\* (two of them are equal when the dimensions are); a FlatVector has its
\* coefficients and its basis.

\* the dimensions of the bases and the entries of the matrices and vectors
BasisDims == {1, 2}
Entries == {0, 1}
VectorEntries == {1, 2}

\* MatrixOperator(arr): the domain and the codomain are the canonical bases
\* of the shape of arr
MatrixOperators ==
    UNION {[arr : [1..r -> [1..c -> Entries]], domain : {c}, codomain : {r}] :
            r \in BasisDims, c \in BasisDims}

FlatVectors ==
    UNION {[coeffs : [1..n -> VectorEntries], basis : {n}] : n \in BasisDims}

\* what stands for the vector when apply raised BasisMismatchError
Mismatch == [coeffs |-> <<>>, basis |-> 0]

\* np.dot(self._arr, vec.coeffs)
dot(arr, x) ==
    [i \in 1..Len(arr) |->
        SumOver(1..Len(x), [j \in 1..Len(x) |-> arr[i][j] * x[j]])]

\* MatrixOperator.apply(vec): _check_basis, then the product on the codomain
MatrixOperator_apply(op, vec) ==
    IF vec = Mismatch \/ op.domain # vec.basis
    THEN Mismatch
    ELSE [coeffs |-> dot(op.arr, vec.coeffs), basis |-> op.codomain]

\* ComposedOperator(op1, op2) and its properties domain and codomain
ComposedOperator(op1, op2) == [op1 |-> op1, op2 |-> op2]
ComposedOperator_domain(c) == c.op1.domain
ComposedOperator_codomain(c) == c.op2.codomain

\* the assertion of ComposedOperator.__init__
ComposedOperator_asserts(c) == c.op1.codomain = c.op2.domain

\* ComposedOperator.apply(vec): r = op1.apply(vec); r = op2.apply(r)
ComposedOperator_apply(c, vec) ==
    MatrixOperator_apply(c.op2, MatrixOperator_apply(c.op1, vec))

\* mutant of mul: the operands are composed in the order they are written
mul_Swapped(A, B) == ComposedOperator(A, B)

\* A.__mul__(B) for an operator B: ComposedOperator(other, self)
mul(A, B) == ComposedOperator(B, A)

\* A * B
Compose ==
    /\ comp_pc = "ready"
    /\ LET c == mul(comp_A, comp_B)
       IN  IF ComposedOperator_asserts(c)
           THEN comp_AB' = c /\ comp_raised' = "none" /\ comp_pc' = "composed"
           ELSE /\ comp_AB' = comp_AB
                /\ comp_raised' = "AssertionError"
                /\ comp_pc' = "failed"
    /\ UNCHANGED <<comp_A, comp_B, comp_x, comp_r, loopvars, opvars, markvars,
                   estvars, polyvars>>

\* (A * B).apply(x)
ApplyComposed ==
    /\ comp_pc = "composed"
    /\ comp_r' = ComposedOperator_apply(comp_AB, comp_x)
    /\ comp_raised' = IF comp_r' = Mismatch THEN "BasisMismatchError" ELSE "none"
    /\ comp_pc' = "applied"
    /\ UNCHANGED <<comp_A, comp_B, comp_x, comp_AB, loopvars, opvars, markvars,
                   estvars, polyvars>>

CompositionInit ==
    /\ LoopIdle
    /\ OperatorsIdle
    /\ MarkingIdle
    /\ EstimatorIdle
    /\ PolynomialsIdle
    /\ comp_pc = "ready"
    /\ comp_A \in MatrixOperators
    /\ comp_B \in MatrixOperators
    /\ comp_x \in FlatVectors
    /\ comp_AB = <<>>
    /\ comp_r = <<>>
    /\ comp_raised = "none"

CompositionNext == Compose \/ ApplyComposed

CompositionSpec == CompositionInit /\ [][CompositionNext]_vars

\* ------------------------------------- the evaluation of polynomial expansions
\* compute_poly, eval_clenshaw and eval_forsythe of polyquad/_polynomials.py,
\* called on their own with integers for the floats.

\* largest degree n of an expansion c_0..c_n
MaxDegree == 3

\* the coefficients and the points tried, and (shift, scale) of the shifted
\* and scaled family
SeriesCoeffs == {-1, 1, 2}
Points == -2..2
ShiftScale == <<1, -1>>

\* a / b of two numbers of which b divides a
Quotient(a, b) == IF b < 0 THEN (-a) \div (-b) ELSE a \div b

\* rc_monomials(n)
rc_monomials(n) == <<0, 1, 0>>

\* rc_shift_scale(rc_stoch_hermite, shift, scale)(n)
rc_shifted_scaled(n) ==
    LET rc == rc_stoch_hermite(n)
        shift == ShiftScale[1]
        scale == ShiftScale[2]
    IN  <<rc[1] - Quotient(rc[2] * shift, scale), Quotient(rc[2], scale), rc[3]>>

\* rc_func(n) for the families tried
Families == {"rc_monomials", "rc_stoch_hermite", "rc_shifted_scaled"}
rc_of(rc, n) ==
    IF rc = "rc_monomials" THEN rc_monomials(n)
    ELSE IF rc = "rc_stoch_hermite" THEN rc_stoch_hermite(n)
    ELSE rc_shifted_scaled(n)

\* the list f of compute_poly after n rounds of its loop: f = [0, 1] and
\* fn = (x * b + a) * f[i + 1] - c * f[i] for i = 0..n-1
RECURSIVE poly_f(_, _, _)
poly_f(rc, n, x) ==
    IF n = 0 THEN <<0, 1>>
    ELSE LET f == poly_f(rc, n - 1, x)
             r == rc_of(rc, n - 1)
         IN  Append(f, (x * r[2] + r[1]) * f[n + 1] - r[3] * f[n])

\* compute_poly(rc_func, n, x) = f[1:], the values p_0(x)..p_n(x)
compute_poly(rc, n, x) == Tail(poly_f(rc, n, x))

\* mutant of eval_clenshaw: c of rc_func(k) is taken in place of c of
\* rc_func(k + 1)
RECURSIVE clenshaw_Unshifted(_, _, _, _)
clenshaw_Unshifted(rc, c, x, k) ==
    IF k = Len(c) THEN <<0, 0>>
    ELSE LET q == clenshaw_Unshifted(rc, c, x, k + 1)
             r == rc_of(rc, k)
         IN  <<c[k + 1] + (r[1] + r[2] * x) * q[1] - r[3] * q[2], q[1]>>
eval_clenshaw_Unshifted(rc, c, x) == clenshaw_Unshifted(rc, c, x, 0)[1]

\* (q1, q2) of eval_clenshaw after the rounds n, n-1, .., k of its loop:
\* q0 = coeffs[k] + (ak + bk * x) * q1 - ck2 * q2; q1, q2 = q0, q1
RECURSIVE clenshaw(_, _, _, _)
clenshaw(rc, c, x, k) ==
    IF k = Len(c) THEN <<0, 0>>
    ELSE LET q == clenshaw(rc, c, x, k + 1)
             r == rc_of(rc, k)
             r2 == rc_of(rc, k + 1)
         IN  <<c[k + 1] + (r[1] + r[2] * x) * q[1] - r2[3] * q[2], q[1]>>

\* eval_clenshaw(rc_func, coeffs, x) for a non-empty list coeffs: q0
eval_clenshaw(rc, c, x) == clenshaw(rc, c, x, 0)[1]

\* (t0, t1, f1) of eval_forsythe after the rounds 1..k of its loop:
\* t2 = (ak + bk * x) * t1 - ck * t0; f2 = f1 + coeffs[k + 1] * t2
RECURSIVE forsythe(_, _, _, _)
forsythe(rc, c, x, k) ==
    IF k = 0
    THEN LET r == rc_of(rc, 0)
             t1 == r[1] + r[2] * x
         IN  <<1, t1, c[1] + c[2] * t1>>
    ELSE LET s == forsythe(rc, c, x, k - 1)
             r == rc_of(rc, k)
             t2 == (r[1] + r[2] * x) * s[2] - r[3] * s[1]
         IN  <<s[2], t2, s[3] + c[k + 2] * t2>>

\* eval_forsythe(rc_func, coeffs, x) for a non-empty list coeffs
eval_forsythe(rc, c, x) ==
    LET n == Len(c) - 1
    IN  IF n < 1 THEN c[1] ELSE forsythe(rc, c, x, n - 1)[3]

\* a call of eval_clenshaw
EvalClenshaw ==
    /\ poly_pc = "ready"
    /\ poly_y' = eval_clenshaw(rc_func, poly_coeffs, poly_x)
    /\ poly_pc' = "eval_clenshaw"
    /\ UNCHANGED <<rc_func, poly_coeffs, poly_x, loopvars, opvars, markvars,
                   estvars, compvars>>

\* a call of eval_forsythe
EvalForsythe ==
    /\ poly_pc = "ready"
    /\ poly_y' = eval_forsythe(rc_func, poly_coeffs, poly_x)
    /\ poly_pc' = "eval_forsythe"
    /\ UNCHANGED <<rc_func, poly_coeffs, poly_x, loopvars, opvars, markvars,
                   estvars, compvars>>

PolynomialsInit ==
    /\ LoopIdle
    /\ OperatorsIdle
    /\ MarkingIdle
    /\ EstimatorIdle
    /\ CompositionIdle
    /\ poly_pc = "ready"
    /\ rc_func \in Families
    /\ poly_coeffs \in UNION {[1..(n + 1) -> SeriesCoeffs] : n \in 0..MaxDegree}
    /\ poly_x \in Points
    /\ poly_y = 0

PolynomialsNext == EvalClenshaw \/ EvalForsythe

PolynomialsSpec == PolynomialsInit /\ [][PolynomialsNext]_vars

\* ------------------------------------------------- vocabulary of the claims
\* how often phase ph was executed, and the indices it was executed for
Count(ph) == Cardinality({i \in DOMAIN trace : trace[i].ph = ph})
IndicesOf(ph) == {trace[i].k : i \in {j \in DOMAIN trace : trace[j].ph = ph}}

\* no statistics history was handed in
FreshStart == Len(sim_stats_in) = 0

\* the terminal states of the loop
EXHAUSTED == exit_by \in {"range", "skipping", "max_dof"}
CONVERGED == exit_by = "accuracy"

AllRefinementOff ==
    ~do_refinement["RES"] /\ ~do_refinement["PROJ"] /\ ~do_refinement["MI"]

\* the pass that produced the object behind a reference (0: an earlier run)
PassOf(ref) == IF ref = 0 THEN 0 ELSE ref - 1

\* C1: on a fresh start with max_refinements = 0 the run consists of exactly
\* one SOLVE followed by one ESTIMATE, one record is appended, and neither
\* marking nor refinement is ever executed.
C1_OneSolveEstimate ==
    (FreshStart /\ max_refinements = 0) =>
        /\ Count("MARK") = 0 /\ Count("REFINE") = 0
        /\ Count("SOLVE") <= 1 /\ Count("ESTIMATE") <= 1
        /\ pc \notin {"mark", "refine"}
        /\ pc = "done" =>
            /\ Count("SOLVE") = 1 /\ Count("ESTIMATE") = 1
            /\ trace[1] = [ph |-> "SOLVE", k |-> 0]
            /\ trace[2] = [ph |-> "ESTIMATE", k |-> 0]
            /\ Len(sim_stats) = 1
            /\ sim_stats[1].PASS = 1

C1_Witness ==
    /\ FreshStart /\ max_refinements = 0 /\ pc = "done"
    /\ exit_by = "range" /\ Len(sim_stats) = 1

\* C2: on a fresh start with max_dof <= DOFS of the initial discretisation
\* (and a loop that has an iteration 0) the run ends after iteration 0 by
\* the DOF check, without marking or refining, and its single record has
\* MARKING-RES = MARKING-PROJ = MARKING-MI = 0.
C2_MaxDofAtStart ==
    (FreshStart /\ max_dof <= DOFS(w0) /\ max_refinements >= 0) =>
        /\ Count("MARK") = 0 /\ Count("REFINE") = 0
        /\ IndicesOf("SOLVE") \subseteq {0}
        /\ Count("SOLVE") <= 1
        /\ pc = "done" =>
            /\ exit_by = "max_dof"
            /\ EXHAUSTED
            /\ Len(sim_stats) = 1
            /\ sim_stats[1].MARKING_RES = 0
            /\ sim_stats[1].MARKING_PROJ = 0
            /\ sim_stats[1].MARKING_MI = 0

C2_Witness ==
    /\ FreshStart /\ max_dof = DOFS(w0) /\ max_refinements > 0 /\ pc = "done"
    /\ exit_by = "max_dof" /\ xi > error_eps /\ Len(sim_stats) = 1

\* what a REFINE step with nothing to do looks like
NothingToRefine == mesh_markers = NoMarkers /\ new_multiindices = {}

\* C3 as stated: with all three do_refinement toggles off and
\* max_refinements > 0, for any value of the other parameters, every REFINE
\* receives no marked cells and no new multi-indices, and meshes and active
\* set stay those of the initial vector.
C3_AsStated ==
    (AllRefinementOff /\ max_refinements > 0) =>
        /\ pc = "refine" => NothingToRefine
        /\ heap[w] = w0

\* C3 amended: the same with do_uniform_refinement = False.
C3_TogglesOff ==
    (AllRefinementOff /\ max_refinements > 0 /\ ~do_uniform_refinement) =>
        /\ pc = "refine" => NothingToRefine
        /\ heap[w] = w0

C3_Witness ==
    /\ AllRefinementOff /\ ~do_uniform_refinement /\ pc = "refine"
    /\ Count("REFINE") >= 1
    /\ stats.MARKING_RES > 0 /\ stats.MARKING_PROJ > 0 /\ stats.MARKING_MI > 0

\* the exit checks were the last phase executed, for iteration LastIndex
JustChecked == trace # <<>> /\ trace[Len(trace)].ph = "CHECK"
LastIndex == trace[Len(trace)].k

Follows(a, b) ==
    \/ a.ph = "SOLVE" /\ b = [ph |-> "ESTIMATE", k |-> a.k]
    \/ a.ph = "ESTIMATE" /\ b = [ph |-> "CHECK", k |-> a.k]
    \/ a.ph = "CHECK" /\ b = [ph |-> "MARK", k |-> a.k]
    \/ a.ph = "CHECK" /\ b = [ph |-> "SOLVE", k |-> a.k + 1]
    \/ a.ph = "MARK" /\ b = [ph |-> "REFINE", k |-> a.k]
    \/ a.ph = "REFINE" /\ b = [ph |-> "SOLVE", k |-> a.k + 1]

\* C5: the phases of every iteration run in the order SOLVE, ESTIMATE, exit
\* checks, MARK, REFINE, none skipped ahead or repeated, and MARK and REFINE
\* run only for an index k < max_refinements in an iteration in which no
\* exit check fired.
C5_PhaseOrder ==
    /\ trace # <<>> => trace[1] = [ph |-> "SOLVE", k |-> start_iteration]
    /\ \A i \in 1..(Len(trace) - 1) : Follows(trace[i], trace[i + 1])
    /\ \A i \in DOMAIN trace :
        trace[i].ph \in {"MARK", "REFINE"} => trace[i].k < max_refinements
    /\ (pc \in {"mark", "refine"} \/ (trace # <<>> /\ trace[Len(trace)].ph = "MARK")) =>
        /\ exit_by = "none"
        /\ refinement < max_refinements
        /\ ~SkippingRefinement /\ ~ReachedMaxDof /\ ~ReachedAccuracy
    /\ exit_by \in {"skipping", "max_dof", "accuracy"} =>
        (JustChecked /\ pc \in {"return", "done"})

C5_Witness ==
    /\ pc = "done" /\ Count("REFINE") = 2 /\ Count("SOLVE") = 3
    /\ exit_by = "range" /\ heap[w] # w0

\* C6 as stated: with a history of n records no SOLVE or ESTIMATE is
\* executed for an index k whose record sim_stats[k] existed on entry.
C6_AsStated ==
    \A i \in DOMAIN trace :
        trace[i].ph \in {"SOLVE", "ESTIMATE"} => trace[i].k >= Len(sim_stats_in)

\* C6 amended: the loop starts at index max(n-1, 0); no SOLVE or ESTIMATE is
\* executed for an index below max(n-1, 0) and none is executed twice for
\* the same index (the last recorded iteration n-1 is computed again).
C6_ResumeIndex ==
    LET first == Max(Len(sim_stats_in) - 1, 0)
    IN  /\ pc # "entry" => start_iteration = first
        /\ trace # <<>> => trace[1] = [ph |-> "SOLVE", k |-> first]
        /\ \A i \in DOMAIN trace : trace[i].k >= first
        /\ \A i \in DOMAIN trace :
            trace[i].ph \in {"SOLVE", "ESTIMATE"} =>
                \A j \in (i + 1)..Len(trace) : trace[i] # trace[j]

C6_Witness ==
    /\ Len(sim_stats_in) = 2 /\ pc = "done"
    /\ IndicesOf("SOLVE") = {1, 2} /\ IndicesOf("ESTIMATE") = {1, 2}

\* C7: when both histories are lists of the same length on entry, they have
\* the same length after every iteration (between the two appends of an
\* iteration w_history is one longer), and every index appended during the
\* run holds the solution and the statistics of the same pass.
C7_IndexAligned ==
    (~w_history_None /\ Len(w_history_in) = Len(sim_stats_in)) =>
        /\ pc # "estimate" => Len(w_history) = Len(sim_stats)
        /\ pc = "estimate" => Len(w_history) - Len(sim_stats) \in {0, 1}
        /\ \A i \in DOMAIN sim_stats :
            i > Len(sim_stats_in) =>
                (i \in DOMAIN w_history => sim_stats[i].PASS = PassOf(w_history[i]))
        /\ \A i \in DOMAIN w_history :
            i > Len(w_history_in) => PassOf(w_history[i]) > 0

C7_Witness ==
    /\ ~w_history_None /\ Len(sim_stats_in) = 2 /\ pc = "done"
    /\ Len(sim_stats) = 3 /\ Len(w_history) = 3 /\ npass = 2
    /\ sim_stats[3].PASS = 2

\* C8: the statistics history is append-only: every record handed in is
\* still at its index, unmodified.
C8_AppendOnly ==
    /\ Len(sim_stats) >= Len(sim_stats_in)
    /\ \A i \in DOMAIN sim_stats_in : sim_stats[i] = sim_stats_in[i]

\* the iteration bound of C9
IterationBound == Max(max_refinements - start_iteration + 1, 0)

\* C9: the run ends: at most max_refinements - start_iteration + 1 iterations
\* are executed (none when that number is not positive), every state that is
\* not terminal has a next step, and the DOF budget and the iteration budget
\* end the run by the return, never by an error.
C9_Terminates ==
    /\ Count("SOLVE") <= IterationBound
    /\ Count("ESTIMATE") <= IterationBound
    /\ Len(trace) <= 5 * IterationBound
    /\ pc \in {"done", "error"} \/ ENABLED Next
    /\ pc = "error" => (trace = <<>> /\ exit_by = "none")
    /\ exit_by # "none" => pc \in {"return", "done"}
    /\ pc = "done" => exit_by # "none"

C9_Witness ==
    /\ pc = "done" /\ exit_by = "range" /\ start_iteration = 1
    /\ Count("SOLVE") = IterationBound /\ IterationBound = 2

\* C9, the liveness half: under FairSpec every run reaches a terminal state
C9_EventuallyEnds == <>(pc \in {"done", "error"})

\* C10: with an empty initial multi-index set no SOLVE is executed.
C10_EmptyMisFailsFast == mis = <<>> => Count("SOLVE") = 0

\* C11: a solve that did not converge does not abort the loop: whatever zeta
\* the solve of iteration k returns (also the one left when pcg_maxiter was
\* reached), pcg_solve returns and the run goes on with evaluateError, and
\* the zeta evaluateError receives in iteration k is exactly that value.
C11_ZetaHandedOn ==
    /\ pc = "estimate" =>
        /\ trace[Len(trace)] = [ph |-> "SOLVE", k |-> refinement]
        /\ zeta \in PcgZetas /\ zeta_passed = None
        /\ ENABLED Estimate
    /\ (trace # <<>> /\ trace[Len(trace)].ph # "SOLVE") =>
        /\ zeta \in PcgZetas
        /\ zeta_passed = zeta
    /\ Count("SOLVE") - Count("ESTIMATE") = (IF pc = "estimate" THEN 1 ELSE 0)
    /\ pc = "error" => Count("SOLVE") = 0

C11_Witness ==
    /\ pc = "mark" /\ Count("ESTIMATE") = 2 /\ refinement > 0
    /\ zeta = 3 /\ zeta_passed = 3

\* ---------------------------------------------- the claims on the operators
\* the dimensions a completed apply on op_w has to cover
Truncated == Min(Len(coeff_field), max_order(op_w))

\* C12: MultiOperator.apply never fails for a coefficient field that is too
\* short: it subscripts coeff_field[m] only for m < len(coeff_field), and a
\* call that completes has covered exactly the m in [0, len(coeff_field))
\* when len(coeff_field) < w.max_order and the m in [0, w.max_order)
\* otherwise.
C12_TruncatedRange ==
    op_pc = "apply" =>
        /\ op_raised # "IndexError"
        /\ \A m \in op_reads : m < Len(coeff_field)
        /\ op_reads \subseteq 0..(Truncated - 1)
        /\ op_raised = "none" =>
            op_reads = IF Len(coeff_field) < max_order(op_w)
                       THEN 0..(Len(coeff_field) - 1)
                       ELSE 0..(max_order(op_w) - 1)

C12_Witness ==
    /\ op_pc = "apply" /\ op_raised = "none"
    /\ Len(coeff_field) = 1 /\ max_order(op_w) = 2
    /\ op_reads = {0}

\* C13: with len(coeff_field) < w.max_order prepare_rhs subscripts
\* coeff_field[m] only for m < len(coeff_field) and raises no IndexError.
C13_RhsTruncated ==
    op_pc = "prepare_rhs" =>
        /\ op_raised # "IndexError"
        /\ \A m \in op_reads : m < Len(coeff_field)

\* C14: MultiOperator.apply(w) leaves w as it was, and the MultiVector it
\* returns has the active set (and the basis) of w.
C14_NewVectorSameActiveSet ==
    [][Apply => /\ op_w' = op_w
                /\ op_raised' = "none" =>
                    /\ Lambda(op_v') = Lambda(op_w)
                    /\ op_v'.basis = op_w.basis]_vars

C14_Witness ==
    /\ op_pc = "apply" /\ op_raised = "none"
    /\ Cardinality(Lambda(op_v)) = 3 /\ Lambda(op_v) = Lambda(op_w)
    /\ op_v # op_w

\* the right hand side of C15 for the multi-index mu of the MultiVector u
Active(u, mu) == mu \in Lambda(u)
Neighbours(u, mu, m) ==
    LET beta == get_beta(mu[m + 1])
        up == [mu EXCEPT ![m + 1] = mu[m + 1] + 1]
        down == [mu EXCEPT ![m + 1] = mu[m + 1] - 1]
    IN  (-beta[0]) * u.coeffs[mu]
        + (IF Active(u, up) THEN beta[1] * u.coeffs[up] ELSE 0)
        + (IF Active(u, down) THEN beta[-1] * u.coeffs[down] ELSE 0)
Expected(u, mu) ==
    LET M == 0..(Min(Len(coeff_field), max_order(u)) - 1)
    IN  u.basis * CoefficientField.mean_func * u.coeffs[mu]
        + SumOver(M, [m \in M |-> u.basis * coeff_field[m + 1] * Neighbours(u, mu, m)])

\* C15: for every active multi-index mu the result of a completed apply is
\* v[mu] = A0*w[mu] + sum over m in [0, maxm) of A_m*(-beta[0]*w[mu]
\* + beta[1]*w[mu+e_m] if mu+e_m is active + beta[-1]*w[mu-e_m] if mu-e_m is
\* active), beta = get_beta(mu[m]); a neighbour that is not active
\* contributes nothing.
C15_ApplyFormula ==
    (op_pc = "apply" /\ op_raised = "none") =>
        \A mu \in Lambda(op_w) : op_v.coeffs[mu] = Expected(op_w, mu)

C15_Witness ==
    /\ op_pc = "apply" /\ op_raised = "none" /\ op_reads = {0}
    /\ Lambda(op_w) = {<<1, 0>>, <<2, 0>>, <<3, 0>>}
    /\ op_v.coeffs[<<2, 0>>] # 0

\* C16: apply is linear: a completed apply(c1*w1 + c2*w2) equals
\* c1*apply(w1) + c2*apply(w2), component by component, for MultiVectors w1,
\* w2 on one active set and one basis.
C16_Linear ==
    (op_pc = "apply_combination" /\ op_raised = "none") =>
        op_v = Sum(Scaled(op_c[1], apply(op_w)), Scaled(op_c[2], apply(op_w2)))

C16_Witness ==
    /\ op_pc = "apply_combination" /\ op_raised = "none"
    /\ Cardinality(Lambda(op_w)) = 2 /\ op_reads = {0, 1}
    /\ \E mu \in Lambda(op_w) : inc(mu, 0) \in Lambda(op_w)

\* C17: PreconditioningOperator.apply(w) returns, on the active set of w,
\* v[mu] = A0_solve(basis of w[mu], mean_func) * w[mu]: v[mu] is the same for
\* every MultiVector with that component at mu.
C17_MeanFieldOnly ==
    op_pc = "precondition" =>
        /\ op_raised = "none"
        /\ Lambda(op_v) = Lambda(op_w)
        /\ \A mu \in Lambda(op_w) :
            /\ op_v.coeffs[mu] =
                    (op_w.basis * CoefficientField.mean_func + 1) * op_w.coeffs[mu]
            /\ \A u \in MultiVectors(Lambda(op_w), op_w.basis, Coeffs) :
                u.coeffs[mu] = op_w.coeffs[mu] =>
                    PreconditioningOperator_apply(u).coeffs[mu] = op_v.coeffs[mu]

C17_Witness ==
    /\ op_pc = "precondition" /\ Cardinality(Lambda(op_w)) = 3
    /\ zero \in Lambda(op_w) /\ eps_0 \in Lambda(op_w)
    /\ op_v.coeffs[zero] # op_v.coeffs[eps_0]

\* C18: apply completes without an error for an active set with a
\* multi-index mu that has mu[m] = 0 in a dimension m < maxm.
C18_ZeroDegreeCompletes ==
    (op_pc = "apply" /\ \E mu \in Lambda(op_w), m \in 0..(maxm(op_w) - 1) :
                            mu[m + 1] = 0) =>
        op_raised = "none"

\* ------------------------------------------------ the claim on bulk marking
\* the marked cells are a prefix of the cells sorted by descending indicator,
\* their indicator sum is at least theta_eta * total, and without the last
\* marked cell it is below theta_eta * total
BulkProperty ==
    LET cells == Range(marked)
        total == SumOver(DOMAIN resind, resind)
        n == Len(marked)
    IN  /\ cells \subseteq DOMAIN resind /\ Cardinality(cells) = n
        /\ \A i, j \in 1..n : i < j => resind[marked[i]] >= resind[marked[j]]
        /\ \A c \in DOMAIN resind \ cells :
            \A i \in 1..n : resind[marked[i]] >= resind[c]
        /\ theta_eta[2] * SumOver(cells, resind) >= theta_eta[1] * total
        /\ n > 0 =>
            theta_eta[2] * SumOver(cells \ {marked[n]}, resind) < theta_eta[1] * total

C20_UniformMarksAll ==
    do_uniform_refinement =>
        /\ active_indices(heap[w]) = active_indices(w0)
        /\ pc = "refine" =>
            /\ \A mu \in active_indices(heap[w]) :
                mesh_markers[mu] = 1..heap[w][mu]
            /\ \A mu \in Multiindices \ active_indices(heap[w]) :
                mesh_markers[mu] = {}
            /\ new_multiindices = {}

C20_Witness ==
    /\ do_uniform_refinement /\ pc = "done" /\ Count("MARK") = 2
    /\ Count("REFINE") = 2 /\ heap[w][zero] > 2
    /\ mesh_markers[zero] = {1, 2}

\* C21: in the indicator-driven mode the cells passed to Marking.refine for a
\* multi-index mu are (R[mu] if RES is set, else none) united with (P[mu] if
\* PROJ is set, else none), R and P being the two marker maps Marking.mark
\* returned, and the new multi-indices passed are the marked ones if MI is
\* set and none otherwise.
C21_MarkersPassed ==
    (pc = "refine" /\ ~do_uniform_refinement) =>
        /\ \A mu \in Multiindices :
            mesh_markers[mu] =
                (IF do_refinement["RES"] THEN mark_returned.R[mu] ELSE {})
                \cup (IF do_refinement["PROJ"] THEN mark_returned.P[mu] ELSE {})
        /\ new_multiindices =
                IF do_refinement["MI"] THEN mark_returned.new ELSE {}

C21_Witness ==
    /\ pc = "refine" /\ ~do_uniform_refinement
    /\ do_refinement["RES"] /\ do_refinement["PROJ"] /\ do_refinement["MI"]
    /\ \E mu \in Multiindices :
        mark_returned.R[mu] # {} /\ mark_returned.P[mu] = {}
    /\ \E mu \in Multiindices :
        mark_returned.R[mu] = {} /\ mark_returned.P[mu] # {}
    /\ mesh_markers \notin {mark_returned.R, mark_returned.P}

\* ------------------------------------------------ the claims on the estimator
\* C22: the indicators of the estimator are never negative: the projection
\* indicators (zeta1, zeta2) returned for a multi-index are >= 0, and the
\* residual indicators of a multi-index are returned (>= 0, their sum the
\* square of the scalar error returned with them).
C22_IndicatorsNonnegative ==
    /\ (est_pc = "evaluateLocalProjectionError" /\ est_raised = "none") =>
        \A i \in DOMAIN est_zeta : est_zeta[i] >= 0
    /\ est_pc = "_evaluateResidualEstimator" => est_raised = "none"

\* the projections of the cache x that the cache named name held on entry
\* are still in it and were not computed again by the call
Kept(name, held, x) ==
    \A mu \in DOMAIN held : \A nb \in DOMAIN held[mu] :
        /\ <<name, mu, nb>> \notin est_projected
        /\ mu \in DOMAIN x /\ nb \in DOMAIN x[mu] /\ x[mu][nb] = held[mu][nb]

\* C27: a projection that a cache holds on entry for a pair (mu, neighbour)
\* is reused by _evaluateProjections: it is not computed again, and it is in
\* the cache, unchanged, after the call.
C27_CacheReused ==
    est_pc \in {"_evaluateProjections", "evaluateLocalProjectionError"} =>
        /\ Kept("projected_wN", est_in[1], projected_wN)
        /\ Kept("projected_back_wN", est_in[2], projected_back_wN)

\* --------------------------------------------- further claims on the loop
\* the vector w is the result of the last pcg_solve, and it has the meshes
\* and the active set that solve was made on
SolvedOnReturned ==
    /\ npass >= 1 /\ PassOf(w) = npass /\ stats.PASS = npass
    /\ stats.CELLS = CELLS(heap[w]) /\ stats.DOFS = DOFS(heap[w])

\* every REFINE of an iteration k is followed by the SOLVE and the ESTIMATE
\* of iteration k + 1, both executed by the time of the return
RefineNeverLast ==
    \A i \in DOMAIN trace :
        trace[i].ph = "REFINE" =>
            /\ i < Len(trace) =>
                trace[i + 1] = [ph |-> "SOLVE", k |-> trace[i].k + 1]
            /\ i + 1 < Len(trace) =>
                trace[i + 2] = [ph |-> "ESTIMATE", k |-> trace[i].k + 1]
            /\ pc \in {"return", "done"} => i + 2 <= Len(trace)

\* C23 as stated: a REFINE is never the last phase of a run, and the vector
\* returned is always the result of a PCG solve on the returned meshes and
\* active set.
C23_AsStated ==
    /\ RefineNeverLast
    /\ pc \in {"return", "done"} => SolvedOnReturned

\* C23 amended: a REFINE is never the last phase of a run, and the vector
\* returned by a run that executed an iteration is the result of a PCG solve
\* on the returned meshes and active set.
C23_SolveAfterRefine ==
    /\ RefineNeverLast
    /\ (pc \in {"return", "done"} /\ trace # <<>>) => SolvedOnReturned

C23_Witness ==
    /\ pc = "done" /\ exit_by = "accuracy" /\ Count("REFINE") = 1
    /\ heap[w] # w0 /\ SolvedOnReturned

\* C24: whenever the exit checks have run in iteration k, sim_stats[k] is the
\* record created in that same iteration (the record of the pcg_solve call
\* just made), on a fresh start and on a resume from a history of any length.
C24_RecordOfIteration ==
    JustChecked =>
        /\ LastIndex + 1 \in DOMAIN sim_stats
        /\ sim_stats[LastIndex + 1].PASS = npass

\* C25: when AdaptiveSolver returns, every solution appended to w_history
\* during the run still has the meshes and the active set of its post-solve
\* state.  The post-solve state of the solution of pass j is the state in
\* which the solution of pass j - 1 was handed to pcg_solve, and that
\* MultiVector is not written afterwards.
C25_Snapshot ==
    pc \in {"return", "done"} =>
        \A i \in DOMAIN w_history :
            i > Len(w_history_in) =>
                heap[w_history[i]] = heap[w_history[i] - 1]

\* C26: if the resume index max(len(sim_stats) - 1, 0) is greater than
\* max_refinements, no SOLVE, ESTIMATE, MARK or REFINE is executed, and the
\* run returns the initial vector w0 and the statistics history as handed
\* in; the only error is the assertion on the histories at the entry.
C26_NothingExecuted ==
    Max(Len(sim_stats_in) - 1, 0) > max_refinements =>
        /\ trace = <<>> /\ npass = 0
        /\ pc \in {"entry", "return", "done", "error"}
        /\ pc = "error" => (sim_stats_None /\ Len(w_history_in) > 0)
        /\ w = 1 /\ heap = <<w0>>
        /\ sim_stats = sim_stats_in /\ w_history = w_history_in

C26_Witness ==
    /\ pc = "done" /\ Len(sim_stats_in) = 2 /\ max_refinements = 0
    /\ trace = <<>> /\ heap[w] = w0 /\ sim_stats = sim_stats_in

\* ------------------------------------------------ the claim on prepare_rhs
\* C28: prepare_rhs(A, w, coeff_field, pde) leaves w as it was, and the b it
\* returns has the active set of w and is zero in every component other than
\* the zero multi-index and the unit indices e_m with m < w.max_order.
C28_RhsSupport ==
    [][PrepareRhs =>
        /\ op_w' = op_w
        /\ op_raised' = "none" =>
            /\ Lambda(op_v') = Lambda(op_w)
            /\ \A mu \in Lambda(op_v') :
                (mu # zero /\ \A m \in 0..(max_order(op_w) - 1) : mu # inc(zero, m))
                    => op_v'.coeffs[mu] = 0]_vars

C28_Witness ==
    /\ op_pc = "prepare_rhs" /\ op_raised = "none" /\ max_order(op_w) = 1
    /\ Lambda(op_v) = {zero, eps_0, inc(eps_0, 0)}
    /\ op_v.coeffs[zero] # 0 /\ op_v.coeffs[eps_0] # 0
    /\ op_v.coeffs[inc(eps_0, 0)] = 0

\* ------------------------------------- the claim on the operator composition
\* C29: for operators A, B with B.codomain = A.domain, A * B has the domain
\* of B and the codomain of A, and (A * B).apply(x) is A.apply(B.apply(x))
\* for every vector x; with B.codomain # A.domain the construction of A * B
\* fails an assertion.
C29_Composition ==
    /\ comp_pc \in {"composed", "applied"} =>
        /\ comp_B.codomain = comp_A.domain
        /\ ComposedOperator_domain(comp_AB) = comp_B.domain
        /\ ComposedOperator_codomain(comp_AB) = comp_A.codomain
    /\ comp_pc = "applied" =>
        comp_r = MatrixOperator_apply(comp_A, MatrixOperator_apply(comp_B, comp_x))
    /\ comp_pc = "failed" =>
        (comp_B.codomain # comp_A.domain /\ comp_raised = "AssertionError")
    /\ (comp_pc \notin {"idle", "ready"} /\ comp_B.codomain # comp_A.domain) =>
        comp_pc = "failed"

C29_Witness ==
    /\ comp_pc = "applied" /\ comp_raised = "none"
    /\ comp_A.domain = 2 /\ comp_A.codomain = 2 /\ comp_B.domain = 2
    /\ comp_r # MatrixOperator_apply(comp_B, MatrixOperator_apply(comp_A, comp_x))

\* ------------------------------------------- the claim on the series evaluators
\* the sum over k of c_k * p_k(x) with p_0..p_n = compute_poly(rc, n, x)
Series(rc, c, x) ==
    LET p == compute_poly(rc, Len(c) - 1, x)
    IN  SumOver(1..Len(c), [k \in 1..Len(c) |-> c[k] * p[k]])

\* C30: for a non-empty coefficient list c_0..c_n and every x,
\* eval_clenshaw(rc, c, x) and eval_forsythe(rc, c, x) are both the sum over
\* k of c_k * p_k(x), the p_k being the values compute_poly returns.
C30_EvaluatorsAgree ==
    /\ poly_pc = "eval_clenshaw" => poly_y = Series(rc_func, poly_coeffs, poly_x)
    /\ poly_pc = "eval_forsythe" => poly_y = Series(rc_func, poly_coeffs, poly_x)

C30_Witness ==
    /\ poly_pc = "eval_clenshaw" /\ rc_func = "rc_stoch_hermite"
    /\ Len(poly_coeffs) = MaxDegree + 1 /\ poly_x = 2
    /\ poly_y = eval_forsythe(rc_func, poly_coeffs, poly_x)
    /\ poly_y # Series("rc_monomials", poly_coeffs, poly_x)

====
